---- MODULE Spec2Model ----
(***************************************************************************)
(* Model of the App component of src/index.tsx: the React state of the     *)
(* chat client, the two effects, the submit handler and its asynchronous   *)
(* continuations, together with the environment they run in (the clock     *)
(* read by Date.now(), the timers of the greeting animation, the remote    *)
(* service, React's render/commit cycle).                                  *)
(*                                                                         *)
(* Texts are sequences of characters.  State updates are applied to the    *)
(* state variables in the order the code issues them (React's update       *)
(* queue); `rendered' is the snapshot of the last render, which is what    *)
(* the handlers' closures read and what the DOM shows.                     *)
(***************************************************************************)
EXTENDS Integers, Sequences, FiniteSets, TLC

\* ---------------------------------------------------------------- bounds
MaxSends   == 2   \* accepted submissions in one run of the page
MaxChunks  == 1   \* chunks one reply stream delivers
MaxClock   == 1   \* largest reading of Date.now()
WelcomeLen == 2   \* characters of the welcome greeting that are animated
ClientHeight == 3 \* height of the chat container's viewport

\* ------------------------------------------------------------- constants
NoError   == "null"
InitError == "Failed to initialize the chat. Please ensure your API key is set up correctly."
SendError == "An error occurred while sending the message. Please try again."

Greeting == <<"H", "e", "l", "l", "o", "!">>
welcomeMessage == SubSeq(Greeting, 1, WelcomeLen)

Whitespace == {" "}
Inputs == {<<" ">>, <<"q">>}

\* The reply of the service: its k-th chunk carries the k-th letter.
Letters == <<"a", "b", "c", "d">>
ChunkText(k) == <<Letters[k]>>

Runs  == 1..2
Sends == 1..MaxSends

VARIABLES
  chat,          \* 0 for null, else the session created by init run i
  userInput,
  chatHistory,
  isLoading,
  error,
  historyDirty,  \* setChatHistory was called since the last render
  rendered,      \* the state as of the last render (closures, DOM)
  scrollTop,     \* chatContainerRef.current.scrollTop
  effectPending, \* the [chatHistory] effect is scheduled and has not run
  now,           \* the last reading of Date.now()
  apiKeyValid,   \* whether creating the session succeeds
  initRun,       \* the invocations of initChat
  timers,        \* the runs awaiting their 30 ms timeout, in the order set
  send           \* the accepted invocations of handleSendMessage

vars == <<chat, userInput, chatHistory, isLoading, error, historyDirty,
          rendered, scrollTop, effectPending, now, apiKeyValid, initRun, timers, send>>

\* --------------------------------------------------------------- helpers
Message(id, role, text) == [id |-> id, role |-> role, text |-> text]

RECURSIVE TrimStart(_)
TrimStart(s) ==
  IF s # <<>> /\ Head(s) \in Whitespace THEN TrimStart(Tail(s)) ELSE s

RECURSIVE TrimEnd(_)
TrimEnd(s) ==
  IF s # <<>> /\ s[Len(s)] \in Whitespace
  THEN TrimEnd(SubSeq(s, 1, Len(s) - 1)) ELSE s

trim(s) == TrimEnd(TrimStart(s))

Min(a, b) == IF a < b THEN a ELSE b
Max(a, b) == IF a > b THEN a ELSE b

RECURSIVE SumHeights(_)
SumHeights(h) ==
  IF h = <<>> THEN 0 ELSE 1 + Len(Head(h).text) + SumHeights(Tail(h))

LoadingIndicator(r) ==
  /\ r.isLoading
  /\ Len(r.chatHistory) > 0
  /\ r.chatHistory[Len(r.chatHistory)].role = "user"

ScrollHeight(r) ==
  Max(ClientHeight, SumHeights(r.chatHistory) + (IF LoadingIndicator(r) THEN 1 ELSE 0))

MaxScrollTop(r) == ScrollHeight(r) - ClientHeight

State ==
  [chat |-> chat, userInput |-> userInput, chatHistory |-> chatHistory,
   isLoading |-> isLoading, error |-> error]

\* The locals of one invocation of handleSendMessage: userMessage.id,
\* currentText, modelMessageId, and how many chunks its stream has yielded.
IdleSend == [pc |-> "idle", userMessageId |-> "", currentText |-> <<>>,
             modelMessageId |-> "", received |-> 0]

\* The mount effects have run, and so has the effect of the last commit: React
\* flushes a commit's effects before it processes anything else, and the steps
\* below neither read nor write what the effect reads and writes.
Mounted == (\A i \in Runs : initRun[i].pc # "start") /\ ~effectPending

\* ------------------------------------------------------------------ Init
Init ==
  /\ chat = 0
  /\ userInput = <<>>
  /\ chatHistory = <<>>
  /\ isLoading = FALSE
  /\ error = NoError
  /\ historyDirty = FALSE
  /\ rendered = [chat |-> 0, userInput |-> <<>>, chatHistory |-> <<>>,
                 isLoading |-> FALSE, error |-> NoError]
  /\ scrollTop = 0
  /\ effectPending = FALSE
  /\ now = 0
  /\ apiKeyValid \in BOOLEAN
  /\ \E strict \in BOOLEAN :
       initRun = [i \in Runs |->
                    [pc |-> IF i = 1 \/ strict THEN "start" ELSE "done",
                     currentText |-> <<>>, initialMessageId |-> ""]]
  /\ timers = <<>>
  /\ send = [h \in Sends |-> IdleSend]

\* ------------------------------------------------- React's render cycle
NoScrollEffect(r, top) == top

\* The [chatHistory] effect (scroll to the newest content): scrollTop is
\* assigned scrollHeight, which the browser limits to the largest offset.
ScrollEffect(r, top) == Min(ScrollHeight(r), MaxScrollTop(r))

\* The browser keeps scrollTop within the content when the content shrinks.
Clamp(top, r) == Min(top, MaxScrollTop(r))

\* A render scheduled from a timer or a promise continuation: it commits the
\* state, and schedules the effect when chatHistory (its dependency) is a new
\* array.
Render ==
  /\ Mounted
  /\ historyDirty \/ State # rendered
  /\ rendered' = State
  /\ scrollTop' = Clamp(scrollTop, State)
  /\ effectPending' = historyDirty
  /\ historyDirty' = FALSE
  /\ UNCHANGED <<chat, userInput, chatHistory, isLoading, error, now,
                 apiKeyValid, initRun, timers, send>>

FlushEffect ==
  /\ effectPending
  /\ scrollTop' = ScrollEffect(rendered, scrollTop)
  /\ effectPending' = FALSE
  /\ UNCHANGED <<chat, userInput, chatHistory, isLoading, error, historyDirty,
                 rendered, now, apiKeyValid, initRun, timers, send>>

\* The render at the end of a DOM event handler: synchronous, effects included.
\* `dirty' tells whether chatHistory is a new array in this commit.
SyncRender(dirty) ==
  LET r == [chat |-> chat', userInput |-> userInput', chatHistory |-> chatHistory',
            isLoading |-> isLoading', error |-> error']
  IN /\ rendered' = r
     /\ scrollTop' = IF dirty THEN ScrollEffect(r, Clamp(scrollTop, r))
                     ELSE Clamp(scrollTop, r)
     /\ effectPending' = FALSE
     /\ historyDirty' = FALSE

\* ------------------------------------------------------------ the clock
\* What a call of Date.now() may return: no less than the last reading.
Readings == now..MaxClock

\* ----------------------------------------------------- initChat (25-57)
initialMessageId(t) == ToString(t)

LoadingNotSet == FALSE

\* setIsLoading(true) of line 36.
LoadingDuringGreeting == TRUE

GreetingAppended(id, text) == Append(chatHistory, Message(id, "model", text))

GreetingHistory(id, text) == <<Message(id, "model", text)>>

LoadingLeftSet == TRUE

\* setIsLoading(false) of the finally block, lines 52-54.
LoadingAfterInit == FALSE

\* The synchronous part of initChat, up to its first await.  The runs of one
\* mount start back to back, before anything else happens.
InitStart(i, t) ==
  /\ initRun[i].pc = "start"
  /\ i = 1 \/ initRun[1].pc # "start"
  /\ IF apiKeyValid
     THEN LET id   == initialMessageId(t)
              text == SubSeq(welcomeMessage, 1, 1)
          IN /\ chat' = i
             /\ now' = t
             /\ isLoading' = LoadingDuringGreeting
             /\ chatHistory' = GreetingHistory(id, text)
             /\ historyDirty' = TRUE
             /\ initRun' = [initRun EXCEPT ![i] =
                  [pc |-> "loop", currentText |-> text, initialMessageId |-> id]]
             /\ timers' = Append(timers, i)
             /\ UNCHANGED error
     ELSE /\ error' = InitError
          /\ isLoading' = LoadingAfterInit
          /\ initRun' = [initRun EXCEPT ![i].pc = "done"]
          /\ t = now
          /\ UNCHANGED <<chat, chatHistory, historyDirty, now, timers>>
  /\ UNCHANGED <<userInput, rendered, scrollTop, effectPending, apiKeyValid, send>>

\* The continuation of initChat after one 30 ms timer: the next character, or
\* the end of the loop and the finally block.  Timers of equal timeout fire in
\* the order they were set, and the continuation runs in the timer's task.
InitStep(i) ==
  /\ Mounted
  /\ initRun[i].pc = "loop"
  /\ timers # <<>> /\ Head(timers) = i
  /\ LET run == initRun[i]
     IN IF Len(run.currentText) < Len(welcomeMessage)
        THEN LET text == Append(run.currentText,
                                welcomeMessage[Len(run.currentText) + 1])
             IN /\ chatHistory' = GreetingHistory(run.initialMessageId, text)
                /\ historyDirty' = TRUE
                /\ initRun' = [initRun EXCEPT ![i].currentText = text]
                /\ timers' = Append(Tail(timers), i)
                /\ UNCHANGED isLoading
        ELSE /\ isLoading' = LoadingAfterInit
             /\ timers' = Tail(timers)
             /\ initRun' = [initRun EXCEPT ![i] =
                  [pc |-> "done", currentText |-> <<>>, initialMessageId |-> ""]]
             /\ UNCHANGED <<chatHistory, historyDirty>>
  /\ UNCHANGED <<chat, userInput, error, rendered, scrollTop, effectPending,
                 now, apiKeyValid, send>>

\* ------------------------------------------------ the input field (127-134)
InputDisabled(r) == r.isLoading \/ r.chat = 0

TypeInput(s) ==
  /\ Mounted
  /\ ~InputDisabled(rendered)
  /\ s # userInput
  /\ userInput' = s
  /\ UNCHANGED <<chat, chatHistory, isLoading, error>>
  /\ SyncRender(historyDirty)
  /\ UNCHANGED <<now, apiKeyValid, initRun, timers, send>>

\* ------------------------------------------- handleSendMessage (65-106)
RejectsUnlessBlank(r) == r.isLoading \/ r.chat = 0

RejectsUnlessLoading(r) == trim(r.userInput) = <<>> \/ r.chat = 0

\* The early return of line 67, read from the closure of the last render.
Rejects(r) == trim(r.userInput) = <<>> \/ r.isLoading \/ r.chat = 0

userMessageId(t)   == ToString(t)
modelMessageId(t)  == ToString(t + 1)
removedId(t)       == ToString(t + 1)

PrependMessage(hist, m) == <<m>> \o hist

AppendMessage(hist, m) == Append(hist, m)

LoadingKept == TRUE

\* The finally block of handleSendMessage: setIsLoading(false).
LoadingAfterSend == FALSE

\* currentText += chunk.text
Concat(text, chunk) == text \o chunk

ApplyChunk(hist, id, text) ==
  [k \in 1..Len(hist) |->
     IF hist[k].id = id THEN [hist[k] EXCEPT !.text = text] ELSE hist[k]]

RemovePlaceholder(hist, t) == SelectSeq(hist, LAMBDA m : m.id # removedId(t))

InFlight(h) == send[h].pc \in {"awaitStream", "streaming"}
FreeSend(h) == send[h].pc = "idle" /\ \A g \in 1..(h - 1) : send[g].pc # "idle"

\* A call of handleSendMessage: a no-op when line 67 returns, else the
\* synchronous part up to the await of line 80, and the render that ends the
\* submit event.
HandleSendMessage(t) ==
  /\ Mounted
  /\ IF Rejects(rendered)
     THEN t = now /\ UNCHANGED vars
     ELSE \E h \in Sends :
            /\ FreeSend(h)
            /\ chatHistory' = AppendMessage(chatHistory,
                 Message(userMessageId(t), "user", rendered.userInput))
            /\ userInput' = <<>>
            /\ isLoading' = TRUE
            /\ error' = NoError
            /\ send' = [send EXCEPT ![h].pc = "awaitStream",
                                    ![h].userMessageId = userMessageId(t)]
            /\ now' = t
            /\ UNCHANGED <<chat, apiKeyValid, initRun, timers>>
            /\ SyncRender(TRUE)

\* sendMessageStream resolved (lines 80-88): the placeholder is appended.
StreamReturned(h, t) ==
  /\ Mounted
  /\ send[h].pc = "awaitStream"
  /\ now' = t
  /\ LET id == modelMessageId(t)
     IN /\ chatHistory' = AppendMessage(chatHistory, Message(id, "model", <<>>))
        /\ send' = [send EXCEPT ![h].pc = "streaming", ![h].modelMessageId = id]
  /\ historyDirty' = TRUE
  /\ UNCHANGED <<chat, userInput, isLoading, error, rendered, scrollTop,
                 effectPending, apiKeyValid, initRun, timers>>

\* One chunk of the stream (lines 90-97).
ChunkArrives(h) ==
  /\ Mounted
  /\ send[h].pc = "streaming"
  /\ send[h].received < MaxChunks
  /\ LET text == Concat(send[h].currentText, ChunkText(send[h].received + 1))
     IN /\ chatHistory' = ApplyChunk(chatHistory, send[h].modelMessageId, text)
        /\ send' = [send EXCEPT ![h].currentText = text,
                                ![h].received = @ + 1]
  /\ historyDirty' = TRUE
  /\ UNCHANGED <<chat, userInput, isLoading, error, rendered, scrollTop,
                 effectPending, now, apiKeyValid, initRun, timers>>

\* The catch block and the finally block (lines 98-105).
Catch(h, t) ==
  /\ error' = SendError
  /\ now' = t
  /\ chatHistory' = RemovePlaceholder(chatHistory, t)
  /\ historyDirty' = TRUE
  /\ isLoading' = LoadingAfterSend
  /\ send' = [send EXCEPT ![h] = [IdleSend EXCEPT !.pc = "failed"]]
  /\ UNCHANGED <<chat, userInput, rendered, scrollTop, effectPending,
                 apiKeyValid, initRun, timers>>

\* sendMessageStream rejected: no stream is returned.
SendFails(h, t) ==
  /\ Mounted
  /\ send[h].pc = "awaitStream"
  /\ Catch(h, t)

\* The stream threw while being iterated.
StreamThrows(h, t) ==
  /\ Mounted
  /\ send[h].pc = "streaming"
  /\ Catch(h, t)

\* The stream ended: the finally block alone.
StreamEnds(h) ==
  /\ Mounted
  /\ send[h].pc = "streaming"
  /\ isLoading' = LoadingAfterSend
  /\ send' = [send EXCEPT ![h] = [IdleSend EXCEPT !.pc = "done"]]
  /\ UNCHANGED <<chat, userInput, chatHistory, error, historyDirty, rendered,
                 scrollTop, effectPending, now, apiKeyValid, initRun, timers>>

\* ------------------------------------------------------------------ Next
Next ==
  \/ \E i \in Runs, t \in Readings : InitStart(i, t)
  \/ \E i \in Runs : InitStep(i)
  \/ \E s \in Inputs \cup {<<>>} : TypeInput(s)
  \/ \E t \in Readings : HandleSendMessage(t)
  \/ \E h \in Sends, t \in Readings : StreamReturned(h, t)
  \/ \E h \in Sends, t \in Readings : SendFails(h, t)
  \/ \E h \in Sends : ChunkArrives(h)
  \/ \E h \in Sends, t \in Readings : StreamThrows(h, t)
  \/ \E h \in Sends : StreamEnds(h)
  \/ Render
  \/ FlushEffect

Spec == Init /\ [][Next]_vars

\* The timers fire, React renders what is scheduled, and the service answers:
\* the call rejects or returns a stream, and a stream ends or throws.  The
\* user is free never to act.
FairSpec ==
  /\ Spec
  /\ WF_vars(\E i \in Runs : InitStep(i))
  /\ WF_vars(Render)
  /\ WF_vars(FlushEffect)
  /\ \A h \in Sends :
       /\ WF_vars(\E t \in Readings : StreamReturned(h, t) \/ SendFails(h, t))
       /\ WF_vars(StreamEnds(h) \/ \E t \in Readings : StreamThrows(h, t))

\* ----------------------------------------------------------- properties
InFlightSends == {h \in Sends : InFlight(h)}

UserMessages(hist) == {k \in 1..Len(hist) : hist[k].role = "user"}

\* C1: duplicate submissions are blocked during an outstanding request: at any
\* time at most one request/stream cycle is in flight on the chat session.
C1_SingleCycleInFlight == Cardinality(InFlightSends) <= 1

UserSeq(hist) == SelectSeq(hist, LAMBDA m : m.role = "user")

IsPrefix(a, b) == Len(a) <= Len(b) /\ SubSeq(b, 1, Len(a)) = a

\* a is b with some elements left out
RECURSIVE IsSubSeq(_, _)
IsSubSeq(a, b) ==
  IF a = <<>> THEN TRUE
  ELSE IF b = <<>> THEN FALSE
  ELSE IF Head(a) = Head(b) THEN IsSubSeq(Tail(a), Tail(b))
  ELSE IsSubSeq(a, Tail(b))

Identity(hist) == [k \in 1..Len(hist) |-> <<hist[k].id, hist[k].role>>]

\* What the claim of C2 asks of one step: the user messages stay, unchanged and
\* in order; the list grows at its end only; the messages that stay keep their
\* order around the user messages.
KeepsUserMessages(old, new) ==
  /\ IsPrefix(UserSeq(old), UserSeq(new))
  /\ Len(new) > Len(old) => IsPrefix(old, new)
  /\ (UserMessages(old) # {} /\ Len(new) <= Len(old))
       => IsSubSeq(Identity(new), Identity(old))

\* C2: the message list is kept in order and append-only across send cycles: a
\* user message stays in chatHistory, at the same position relative to the other
\* messages, with unchanged role and text; new messages are added at the end.
C2_UserMessagesKept == [][KeepsUserMessages(chatHistory, chatHistory')]_vars
ModelCount(hist) == Cardinality({k \in 1..Len(hist) : hist[k].role = "model"})

Last(hist) == hist[Len(hist)]

\* The step in which the call of send h returns its stream.
Returns(h) == send[h].pc = "awaitStream" /\ send'[h].pc = "streaming"

PlaceholderStep ==
  /\ \A h \in Sends :
       /\ Returns(h) =>
            /\ chatHistory' = Append(chatHistory,
                 Message(send'[h].modelMessageId, "model", <<>>))
            /\ send'[h].received = 0 /\ send'[h].currentText = <<>>
            /\ \E k \in 1..Len(chatHistory) :
                 /\ chatHistory[k].role = "user"
                 /\ chatHistory[k].id = send[h].userMessageId
       /\ send[h].pc = "streaming" => send'[h].pc # "awaitStream"
       /\ (send[h].pc = "awaitStream" /\ send'[h].pc = "failed")
            => ModelCount(chatHistory') <= ModelCount(chatHistory)
       /\ send[h].pc \in {"failed", "done"} => send'[h] = send[h]
  /\ (UserMessages(chatHistory) # {}
        /\ ModelCount(chatHistory') > ModelCount(chatHistory))
       => /\ Cardinality({h \in Sends : Returns(h)}) = 1
          /\ ModelCount(chatHistory') = ModelCount(chatHistory) + 1

\* C3: a submission whose call returns a stream gets exactly one empty
\* model-role placeholder, appended at the end of chatHistory after its user
\* message and before any chunk is applied; a submission whose call fails
\* before a stream is returned never gets one.
C3_PlaceholderAppendedOnce == [][PlaceholderStep]_vars

C3_Witness ==
  \E h \in Sends :
    /\ send[h].pc = "streaming" /\ send[h].received = 0
    /\ Last(chatHistory) = Message(send[h].modelMessageId, "model", <<>>)
    /\ \E g \in Sends : send[g].pc = "failed"
\* The concatenation of the first n chunks of the reply, in arrival order.
RECURSIVE ChunksText(_)
ChunksText(n) == IF n = 0 THEN <<>> ELSE ChunksText(n - 1) \o ChunkText(n)

\* The messages of hist that carry the id of send h's placeholder.
Placeholders(h, hist) ==
  {k \in 1..Len(hist) : hist[k].role = "model" /\ hist[k].id = send[h].modelMessageId}

\* That request's placeholder: the newest of them.
Placeholder(h, hist) ==
  CHOOSE k \in Placeholders(h, hist) : \A j \in Placeholders(h, hist) : j <= k

\* C4: while a reply streams, after its k-th chunk the text of that request's
\* placeholder is the concatenation of chunks 1..k in arrival order, and so it
\* is when the stream ends.
C4_PlaceholderIsConcatenation ==
  \A h \in Sends :
    send[h].pc = "streaming" =>
      /\ Placeholders(h, chatHistory) # {}
      /\ chatHistory[Placeholder(h, chatHistory)].text = ChunksText(send[h].received)
\* The step in which send h applies one chunk.
AppliesChunk(h) ==
  send[h].pc = "streaming" /\ send'[h].received = send[h].received + 1

Changed(old, new) == {k \in 1..Len(old) : k > Len(new) \/ new[k] # old[k]}

\* C5: applying a chunk changes only the placeholder of the in-flight reply:
\* the length of chatHistory, the order of its messages, and the id, role and
\* text of every other message are unchanged.
C5_ChunkChangesPlaceholderOnly ==
  [][\A h \in Sends :
       AppliesChunk(h) =>
         /\ Len(chatHistory') = Len(chatHistory)
         /\ Identity(chatHistory') = Identity(chatHistory)
         /\ Changed(chatHistory, chatHistory') \subseteq {Placeholder(h, chatHistory)}]_vars

Ids(hist) == {hist[k].id : k \in 1..Len(hist)}

\* C7: all messages in chatHistory have pairwise distinct ids, whatever
\* Date.now() returns.
C7_IdsDistinct == Cardinality(Ids(chatHistory)) = Len(chatHistory)

\* The step in which the stream of send h throws.
Throws(h) == send[h].pc = "streaming" /\ send'[h].pc = "failed"

\* C8: when a request fails after its placeholder was appended, the catch
\* handler removes the placeholder: the history then holds no model message of
\* the failed request.
C8_PlaceholderRemovedOnFailure ==
  [][\A h \in Sends :
       Throws(h) =>
         \A k \in 1..Len(chatHistory') :
           ~(chatHistory'[k].role = "model"
             /\ chatHistory'[k].id = send[h].modelMessageId)]_vars
AtBottom == scrollTop = MaxScrollTop(rendered)

\* C6: the view is kept scrolled to the newest content: after every change of
\* chatHistory the effect sets the scroll position to the bottom before the next
\* change of chatHistory is shown.
C6_ScrolledToNewest ==
  [][/\ rendered'.chatHistory # rendered.chatHistory
          => /\ ~effectPending /\ AtBottom
             /\ effectPending' \/ AtBottom'
     /\ (effectPending /\ ~effectPending') => AtBottom']_vars

C6_Witness ==
  /\ ~effectPending /\ scrollTop > 0 /\ AtBottom
  /\ Len(rendered.chatHistory) >= 3
  /\ \E h \in Sends : send[h].pc = "streaming" /\ send[h].received > 0

Finished(h) == send[h].pc \in {"done", "failed"}

\* A non-empty submission made now would pass line 67.
Accepting == ~Rejects([rendered EXCEPT !.userInput = <<"q">>])

\* C9: the busy flag is always released: after an accepted submission isLoading
\* becomes false again, on the success path and on the failure path, and a new
\* non-empty submission is then accepted; on the failure path error is set to
\* the send-failure message.
C9_BusyFlagReleased ==
  /\ \A h \in Sends : InFlight(h) ~> (Finished(h) /\ ~isLoading)
  /\ \A h \in Sends : InFlight(h) ~> (Finished(h) /\ Accepting)
  /\ [][\A h \in Sends :
          (InFlight(h) /\ Finished(h)')
            => /\ ~isLoading'
               /\ send'[h].pc = "failed" => error' = SendError]_vars

C9_Witness ==
  /\ \E h \in Sends : send[h].pc = "done"
  /\ \E h \in Sends : send[h].pc = "failed"
  /\ ~isLoading /\ Accepting /\ error = SendError

\* An init run whose pending timer continues with a setChatHistory.
SetPending(i) ==
  initRun[i].pc = "loop" /\ Len(initRun[i].currentText) < Len(welcomeMessage)

\* The step in which init run i replaces chatHistory.
InitSets(i) ==
  initRun'[i].pc = "loop" /\ initRun'[i].currentText # initRun[i].currentText

\* C10: the initial greeting never destroys conversation content: also with the
\* init effect started twice, no step of initChat replaces chatHistory after a
\* user message has been appended; isLoading is true whenever an init run still
\* has a setChatHistory step pending.
C10_GreetingKeepsConversation ==
  /\ [][\A i \in Runs : InitSets(i) => UserMessages(chatHistory) = {}]_vars
  /\ [](\A i \in Runs : SetPending(i) => isLoading)

C10_Witness ==
  /\ UserMessages(chatHistory) # {}
  /\ timers = <<2>>

\* The step in which a call of handleSendMessage gets past line 67: a request
\* is sent to the service.
Accepts == \E h \in Sends : send[h].pc = "idle" /\ send'[h].pc = "awaitStream"

\* The conditions under which line 67 returns, on a state record.
MustReject(r) == trim(r.userInput) = <<>> \/ r.isLoading \/ r.chat = 0

\* C11: a rejected submission changes nothing: with an input that is empty
\* or only whitespace, or while isLoading is true, or while no chat session
\* exists, a call of handleSendMessage sends no request and appends no user
\* message; chatHistory, userInput, isLoading and error stay as they are.
C11_RejectedSubmissionChangesNothing ==
  [][/\ Accepts => ~MustReject(State) /\ ~MustReject(rendered)
     /\ Len(UserSeq(chatHistory')) > Len(UserSeq(chatHistory)) => Accepts
     /\ (MustReject(State) \/ MustReject(rendered))
          => \A t \in Readings : HandleSendMessage(t) => UNCHANGED vars]_vars

C11_Witness ==
  /\ Mounted /\ chat # 0 /\ ~isLoading
  /\ userInput = <<" ">> /\ rendered.userInput = <<" ">>
  /\ \E h \in Sends : Finished(h)

\* Initialization has failed: the first run of initChat has reached the end
\* of its catch and finally blocks without a chat session.
InitFailed == ~apiKeyValid /\ initRun[1].pc = "done"

\* C12: if creating the chat session fails during initialization, the state
\* ends with chat = null, error the initialization-failure message and
\* isLoading = false, and from then on no submission is accepted: chatHistory
\* receives no user message and no request is sent.
C12_FailedInitBlocksSubmission ==
  /\ [](InitFailed => /\ chat = 0
                      /\ error = InitError
                      /\ ~isLoading
                      /\ UserMessages(chatHistory) = {}
                      /\ \A h \in Sends : send[h].pc = "idle")
  /\ [][InitFailed => ~Accepts /\ UserSeq(chatHistory') = UserSeq(chatHistory)]_vars

C12_Witness ==
  /\ InitFailed
  /\ \A i \in Runs : initRun[i].pc = "done"
  /\ rendered.error = InitError
  /\ rendered.chat = 0

\* No submission has been accepted yet.
BeforeFirstSubmission == \A h \in Sends : send[h].pc = "idle"

\* The greeting is being written: some run of initChat is in its loop and
\* still has characters of the greeting to write.
Animating ==
  \E i \in Runs : /\ initRun[i].pc = "loop"
                  /\ Len(initRun[i].currentText) < Len(welcomeMessage)

\* Initialization has completed successfully: a run of initChat that created
\* its session has reached the end of its finally block.  Timers firing in the
\* order they were set, the first run to get there is run 1.
InitCompleted == apiKeyValid /\ initRun[1].pc = "done"

\* C13: after initialization has completed successfully and before the first
\* submission, chatHistory is exactly one message, of role model, whose text
\* is the complete greeting, and isLoading is false; while the greeting is
\* being written isLoading is true and chatHistory has at most one message;
\* with one run of the init effect and with two.
C13_GreetingIsTheOnlyMessage ==
  /\ BeforeFirstSubmission /\ InitCompleted
       => /\ Len(chatHistory) = 1
          /\ chatHistory[1].role = "model"
          /\ chatHistory[1].text = welcomeMessage
          /\ ~isLoading
  /\ Animating => isLoading /\ Len(chatHistory) <= 1 /\ BeforeFirstSubmission
  /\ BeforeFirstSubmission => Len(chatHistory) <= 1

C13_Witness ==
  /\ InitCompleted
  /\ BeforeFirstSubmission
  /\ timers = <<2>>
  /\ rendered = State

\* A stronger statement, which the two runs of a StrictMode mount violate:
\* isLoading stays true until the last run of initChat has left its loop.  The
\* finally block of run 1 clears it while run 2, the greeting written in full,
\* is in the last wait of its loop.
LoadingUntilLastRunEnds ==
  (\E i \in Runs : initRun[i].pc = "loop") => isLoading

\* The loading indicator of lines 119-123, in the render on screen.
Displayed == LoadingIndicator(rendered)

\* Send h has been accepted; its placeholder is not yet appended and it has
\* not failed.
Awaiting(h) == send[h].pc = "awaitStream"

\* The last message is the placeholder of a reply in flight.
PlaceholderLast ==
  /\ chatHistory # <<>>
  /\ Last(chatHistory).role = "model"
  /\ \E h \in Sends : /\ send[h].pc = "streaming"
                      /\ Last(chatHistory).id = send[h].modelMessageId

IndicatorWhileAwaiting == (\E h \in Sends : Awaiting(h)) => Displayed
IndicatorNotWithPlaceholder == ~(Displayed /\ PlaceholderLast)
IndicatorOnlyWhileOutstanding == Displayed => \E h \in Sends : InFlight(h)

\* C14: the loading indicator is displayed exactly when isLoading is true and
\* the last message of chatHistory has role user: in a render that shows the
\* current state it is visible while an accepted submission waits for its
\* placeholder, it is never displayed with the placeholder of a reply in flight
\* as last message, and never when no request is outstanding.
C14_LoadingIndicatorTracksRequest ==
  rendered = State =>
    /\ Displayed = (isLoading /\ chatHistory # <<>> /\ Last(chatHistory).role = "user")
    /\ IndicatorWhileAwaiting
    /\ IndicatorNotWithPlaceholder
    /\ IndicatorOnlyWhileOutstanding
====
